---- MODULE Spec2Model ----
(***************************************************************************)
(* ed25519auth/sign.c: sign(sm, m, pw, pwlen), the password-derived        *)
(* EdDSA signing routine.                                                  *)
(*                                                                         *)
(* Two invocations of sign run concurrently, one statement at a time, each *)
(* on its own stack frame (az, nonce, hram, buff, A, R) and its own output *)
(* buffer sm.  Stack frames and output buffers start with arbitrary        *)
(* contents.                                                               *)
(*                                                                         *)
(* Sizes are scaled: a scalar has ScalarLen bytes where the source has 32, *)
(* so the arrays of 64 and 96 bytes have 2*ScalarLen and 3*ScalarLen       *)
(* bytes; bytes keep their 8 bits.  The group order L is scaled with it    *)
(* (2^(8*ScalarLen-4)+3 for 2^252+27742...), so that, as in the source, a  *)
(* clamped scalar is larger than L.                                        *)
(*                                                                         *)
(* sha512, ge_scalarmult_base, ge_p3_tobytes, sc_reduce and sc_muladd are  *)
(* declared in sha512.h, ge.h and sc.h, which are not among the sources;   *)
(* they are modelled from their contracts in spec.md section 6:            *)
(*   - the hash is a deterministic byte mixer (h := 33*h + c, truncated to *)
(*     the digest width);                                                  *)
(*   - a curve point k*B is represented by k in 0..L-1, the basepoint      *)
(*     having order L, and its encoding is an injective byte string.       *)
(***************************************************************************)
EXTENDS Integers, Sequences, FiniteSets, TLC

\* Bytes of a scalar, of a point encoding and of the message digest (32 in the source).
ScalarLen == 2
\* Longest password drawn.
MaxPwLen == 1

Procs == {1, 2}
Byte == 0..255
\* Values a password byte is drawn from: 0 and two neighbours one bit away.
PwBytes == {0, 1, 8}
\* Values an uninitialised byte is drawn from.
JunkBytes == {0, 255}

N == ScalarLen
\* Scaled group order.
L == 2^(8 * ScalarLen - 4) + 3

Fill(n, b) == [k \in 1..n |-> b]

\* The passwords drawn: the empty one and, of every length up to MaxPwLen, the
\* zero password with its last byte drawn from PwBytes.
Passwords ==
  {<<>>} \cup {Append(Fill(n - 1, 0), x) : n \in 1..MaxPwLen, x \in PwBytes}

RECURSIVE BitXor(_, _)
BitXor(x, y) ==
  IF x = 0 /\ y = 0 THEN 0
  ELSE ((x + y) % 2) + 2 * BitXor(x \div 2, y \div 2)

RECURSIVE BitAnd(_, _)
BitAnd(x, y) ==
  IF x = 0 \/ y = 0 THEN 0
  ELSE ((x % 2) * (y % 2)) + 2 * BitAnd(x \div 2, y \div 2)

RECURSIVE BitOr(_, _)
BitOr(x, y) ==
  IF x = 0 /\ y = 0 THEN 0
  ELSE (IF x % 2 = 1 \/ y % 2 = 1 THEN 1 ELSE 0) + 2 * BitOr(x \div 2, y \div 2)

ZeroDigest == Fill(N, 0)
\* The digests drawn: one digest and a neighbour one bit away (the top bit of the last byte).
Digests == {ZeroDigest, [ZeroDigest EXCEPT ![N] = 128]}

\* Little-endian value of the byte string s.
RECURSIVE LEValue(_)
LEValue(s) == IF s = <<>> THEN 0 ELSE s[1] + 256 * LEValue(Tail(s))

\* Little-endian value of s modulo L, byte by byte from the top.
RECURSIVE ModL(_)
ModL(s) == IF s = <<>> THEN 0 ELSE (ModL(Tail(s)) * 256 + s[1]) % L

ToBytes(v, n) == [k \in 1..n |-> (v \div 256^(k - 1)) % 256]

\* x * y mod L for x, y < L, one byte of y at a time.
RECURSIVE MulModL(_, _)
MulModL(x, y) ==
  IF y = 0 THEN 0
  ELSE (MulModL(x, y \div 256) * 256 + x * (y % 256)) % L

\* memmove(dst + off, src + srcoff, n) / memcpy: dst with n bytes replaced.
memmove(dst, off, src, srcoff, n) ==
  [k \in 1..Len(dst) |->
     IF k > off /\ k <= off + n THEN src[srcoff + k - off] ELSE dst[k]]

----------------------------------------------------------------------------
(* The collaborators. *)

HashIV == [j \in 1..2 * N |-> (5 + 16 * (j - 1)) % 256]

\* h * 33 + carry over little-endian bytes, truncated to Len(h) bytes.
RECURSIVE HashMix(_, _)
HashMix(h, carry) ==
  IF h = <<>> THEN <<>>
  ELSE LET t == h[1] * 33 + carry
       IN <<t % 256>> \o HashMix(Tail(h), t \div 256)

RECURSIVE HashAbsorb(_, _)
HashAbsorb(h, data) ==
  IF data = <<>> THEN h
  ELSE HashAbsorb(HashMix(h, data[1]), Tail(data))

\* Hash(data) -> 2N bytes.
sha512(data) == HashAbsorb(HashIV, data)

\* ReduceScalar: the 2N-byte integer s modulo L, written in place over the
\* first N bytes of s.
sc_reduce(s) == memmove(s, 0, ToBytes(ModL(s), N), 0, N)

\* MultiplyAdd(a, b, c) = (a*b + c) mod L, over N-byte scalars.
sc_muladd(a, b, c) ==
  ToBytes((MulModL(ModL(SubSeq(a, 1, N)), ModL(SubSeq(b, 1, N)))
           + ModL(SubSeq(c, 1, N))) % L, N)

\* ScalarMultiplyBase: the point a*B of the N-byte scalar a.
ge_scalarmult_base(a) == ModL(SubSeq(a, 1, N))

\* EncodePoint.
ge_p3_tobytes(P) == ToBytes(3 * P + 1, N)

\* The rest of the group, as a verifier uses it.
ge_frombytes(s) == (LEValue(s) - 1) \div 3
ge_valid(s) == LEValue(s) % 3 = 1 /\ (LEValue(s) - 1) \div 3 < L
ge_add(P, Q) == (P + Q) % L
ge_scalarmult(k, P) == MulModL(k % L, P)

----------------------------------------------------------------------------
(* The statements of sign. *)

\* Mutant: the low bits of az[0] are not cleared.
clamp_keeps_low_bits(a) ==
  LET a2 == [a EXCEPT ![N] = BitAnd(a[N], 63)]
  IN [a2 EXCEPT ![N] = BitOr(a2[N], 64)]

\* Mutant: the top bits are clamped in az[63] instead of az[31].
clamp_last_byte(a) ==
  LET a1 == [a EXCEPT ![1] = BitAnd(a[1], 248)]
      a2 == [a1 EXCEPT ![2 * N] = BitAnd(a1[2 * N], 63)]
  IN [a2 EXCEPT ![2 * N] = BitOr(a2[2 * N], 64)]

\* az[0] &= 248; az[31] &= 63; az[31] |= 64;
clamp(a) ==
  LET a1 == [a EXCEPT ![1] = BitAnd(a[1], 248)]
      a2 == [a1 EXCEPT ![N] = BitAnd(a1[N], 63)]
  IN [a2 EXCEPT ![N] = BitOr(a2[N], 64)]

\* Mutant: the digest is copied to buff + 32.
copy_digest_at_32(b, M) == memmove(b, N, M, 0, N)

\* memmove(buff + 64, m, 32);
copy_digest(b, M) == memmove(b, 2 * N, M, 0, N)

\* Mutant: the scalar half az + 0 is copied instead of the prefix.
copy_prefix_from_0(b, a) == memmove(b, N, a, 0, N)

\* memmove(buff + 32, az + 32, 32);
copy_prefix(b, a) == memmove(b, N, a, N, N)

\* sha512(buff + 32, 64, nonce);
hash_nonce(b) == sha512(SubSeq(b, N + 1, 3 * N))

\* Mutant: the public point is encoded to buff + 0.
store_public_at_0(b, P) == memmove(b, 0, ge_p3_tobytes(P), 0, N)

\* ge_p3_tobytes(buff + 32, &A);
store_public(b, P) == memmove(b, N, ge_p3_tobytes(P), 0, N)

\* ge_p3_tobytes(buff, &R);
store_commitment(b, P) == memmove(b, 0, ge_p3_tobytes(P), 0, N)

\* memcpy(sm, buff, 32);
copy_commitment(s, b) == memmove(s, 0, b, 0, N)

\* sha512(buff, 96, hram);
hash_challenge(b) == sha512(SubSeq(b, 1, 3 * N))

\* Mutant: az and nonce are exchanged in sc_muladd.
store_response_swapped(s, h, a, r) == memmove(s, N, sc_muladd(h, r, a), 0, N)

\* Mutant: the response is written to sm + 0.
store_response_at_0(s, h, a, r) == memmove(s, 0, sc_muladd(h, a, r), 0, N)

\* sc_muladd(sm + 32, hram, az, nonce);
store_response(s, h, a, r) == memmove(s, N, sc_muladd(h, a, r), 0, N)

----------------------------------------------------------------------------
VARIABLES pc, m, pw, junk, sm, az, nonce, hram, buff, A, R

vars == <<pc, m, pw, junk, sm, az, nonce, hram, buff, A, R>>

\* Mutant: the locals are static, one frame shared by all invocations.
frame_static(i) == 1

\* The stack frame holding the locals of invocation i: the locals have
\* automatic storage, one frame per invocation.
frame(i) == i

\* Each invocation is given a digest, a password and an output buffer; junk[i]
\* is the byte its output buffer and its uninitialised locals are filled with.
Init ==
  /\ pc = [i \in Procs |-> "L19"]
  /\ m \in [Procs -> Digests]
  /\ pw \in [Procs -> Passwords]
  /\ junk \in [Procs -> JunkBytes]
  /\ sm = [i \in Procs |-> Fill(2 * N, junk[i])]
  /\ az = [i \in Procs |-> Fill(2 * N, junk[i])]
  /\ nonce = [i \in Procs |-> Fill(2 * N, junk[i])]
  /\ hram = [i \in Procs |-> Fill(2 * N, junk[i])]
  /\ buff = [i \in Procs |-> Fill(3 * N, junk[i])]
  /\ A = [i \in Procs |-> junk[i]]
  /\ R = [i \in Procs |-> junk[i]]

Goto(i, here, there) ==
  /\ pc[i] = here
  /\ pc' = [pc EXCEPT ![i] = there]

\* sha512(pw,pwlen,az);
Step19(i) ==
  /\ Goto(i, "L19", "L20")
  /\ az' = [az EXCEPT ![frame(i)] = sha512(pw[i])]
  /\ UNCHANGED <<m, pw, junk, sm, nonce, hram, buff, A, R>>

\* az[0] &= 248; az[31] &= 63; az[31] |= 64;
Step20(i) ==
  /\ Goto(i, "L20", "L24")
  /\ az' = [az EXCEPT ![frame(i)] = clamp(az[frame(i)])]
  /\ UNCHANGED <<m, pw, junk, sm, nonce, hram, buff, A, R>>

\* memmove(buff + 64,m,32);
Step24(i) ==
  /\ Goto(i, "L24", "L25")
  /\ buff' = [buff EXCEPT ![frame(i)] = copy_digest(buff[frame(i)], m[i])]
  /\ UNCHANGED <<m, pw, junk, sm, az, nonce, hram, A, R>>

\* memmove(buff + 32,az + 32,32);
Step25(i) ==
  /\ Goto(i, "L25", "L26")
  /\ buff' = [buff EXCEPT ![frame(i)] = copy_prefix(buff[frame(i)], az[frame(i)])]
  /\ UNCHANGED <<m, pw, junk, sm, az, nonce, hram, A, R>>

\* sha512(buff + 32,64,nonce);
Step26(i) ==
  /\ Goto(i, "L26", "L28")
  /\ nonce' = [nonce EXCEPT ![frame(i)] = hash_nonce(buff[frame(i)])]
  /\ UNCHANGED <<m, pw, junk, sm, az, hram, buff, A, R>>

\* Mutant: the public point is computed from nonce.
Step28_from_nonce(i) ==
  /\ Goto(i, "L28", "L29")
  /\ A' = [A EXCEPT ![frame(i)] = ge_scalarmult_base(nonce[frame(i)])]
  /\ UNCHANGED <<m, pw, junk, sm, az, nonce, hram, buff, R>>

\* ge_scalarmult_base(&A,az);
Step28(i) ==
  /\ Goto(i, "L28", "L29")
  /\ A' = [A EXCEPT ![frame(i)] = ge_scalarmult_base(az[frame(i)])]
  /\ UNCHANGED <<m, pw, junk, sm, az, nonce, hram, buff, R>>

\* ge_p3_tobytes(buff + 32,&A);
Step29(i) ==
  /\ Goto(i, "L29", "L31")
  /\ buff' = [buff EXCEPT ![frame(i)] = store_public(buff[frame(i)], A[frame(i)])]
  /\ UNCHANGED <<m, pw, junk, sm, az, nonce, hram, A, R>>

\* Mutant: the nonce is not reduced.
Step31_no_reduce(i) ==
  /\ Goto(i, "L31", "L32")
  /\ UNCHANGED <<m, pw, junk, sm, az, nonce, hram, buff, A, R>>

\* sc_reduce(nonce);
Step31(i) ==
  /\ Goto(i, "L31", "L32")
  /\ nonce' = [nonce EXCEPT ![frame(i)] = sc_reduce(nonce[frame(i)])]
  /\ UNCHANGED <<m, pw, junk, sm, az, hram, buff, A, R>>

\* ge_scalarmult_base(&R,nonce);
Step32(i) ==
  /\ Goto(i, "L32", "L33")
  /\ R' = [R EXCEPT ![frame(i)] = ge_scalarmult_base(nonce[frame(i)])]
  /\ UNCHANGED <<m, pw, junk, sm, az, nonce, hram, buff, A>>

\* ge_p3_tobytes(buff,&R);
Step33(i) ==
  /\ Goto(i, "L33", "L34")
  /\ buff' = [buff EXCEPT ![frame(i)] = store_commitment(buff[frame(i)], R[frame(i)])]
  /\ UNCHANGED <<m, pw, junk, sm, az, nonce, hram, A, R>>

\* memcpy(sm, buff, 32);
Step34(i) ==
  /\ Goto(i, "L34", "L36")
  /\ sm' = [sm EXCEPT ![i] = copy_commitment(sm[i], buff[frame(i)])]
  /\ UNCHANGED <<m, pw, junk, az, nonce, hram, buff, A, R>>

\* sha512(buff,96,hram);
Step36(i) ==
  /\ Goto(i, "L36", "L37")
  /\ hram' = [hram EXCEPT ![frame(i)] = hash_challenge(buff[frame(i)])]
  /\ UNCHANGED <<m, pw, junk, sm, az, nonce, buff, A, R>>

\* sc_reduce(hram);
Step37(i) ==
  /\ Goto(i, "L37", "L38")
  /\ hram' = [hram EXCEPT ![frame(i)] = sc_reduce(hram[frame(i)])]
  /\ UNCHANGED <<m, pw, junk, sm, az, nonce, buff, A, R>>

\* sc_muladd(sm + 32,hram,az,nonce);
Step38(i) ==
  /\ Goto(i, "L38", "done")
  /\ sm' = [sm EXCEPT ![i] = store_response(sm[i], hram[frame(i)], az[frame(i)], nonce[frame(i)])]
  /\ UNCHANGED <<m, pw, junk, az, nonce, hram, buff, A, R>>

Next ==
  \E i \in Procs :
    \/ Step19(i) \/ Step20(i) \/ Step24(i) \/ Step25(i) \/ Step26(i)
    \/ Step28(i) \/ Step29(i) \/ Step31(i) \/ Step32(i) \/ Step33(i)
    \/ Step34(i) \/ Step36(i) \/ Step37(i) \/ Step38(i)

Spec == Init /\ [][Next]_vars

\* sign(sm, M, P) run alone from start to return, on an output buffer and a
\* frame filled with the byte j: the output buffer at return.
sign(M, P, j) ==
  LET az1 == clamp(sha512(P))
      buff1 == copy_prefix(copy_digest(Fill(3 * N, j), M), az1)
      nonce1 == hash_nonce(buff1)
      A1 == ge_scalarmult_base(az1)
      buff2 == store_public(buff1, A1)
      nonce2 == sc_reduce(nonce1)
      R1 == ge_scalarmult_base(nonce2)
      buff3 == store_commitment(buff2, R1)
      sm1 == copy_commitment(Fill(2 * N, j), buff3)
      hram1 == sc_reduce(hash_challenge(buff3))
  IN store_response(sm1, hram1, az1, nonce2)

----------------------------------------------------------------------------
(* Vocabulary of the properties. *)

Labels == <<"L19", "L20", "L24", "L25", "L26", "L28", "L29", "L31",
            "L32", "L33", "L34", "L36", "L37", "L38", "done">>
Pos == [l \in {Labels[k] : k \in 1..Len(Labels)} |-> CHOOSE k \in 1..Len(Labels) : Labels[k] = l]
\* Invocation i has executed every statement before label l.
Reached(i, l) == Pos[pc[i]] >= Pos[l]
Done(i) == pc[i] = "done"

Lo(s) == SubSeq(s, 1, N)
Hi(s) == SubSeq(s, N + 1, 2 * N)

\* The byte strings s and t differ in exactly one bit.
OneBitApart(s, t) ==
  /\ Len(s) = Len(t)
  /\ \E k \in 1..Len(s) :
       /\ BitXor(s[k], t[k]) \in {1, 2, 4, 8, 16, 32, 64, 128}
       /\ \A l \in 1..Len(s) : l # k => s[l] = t[l]

TypeOK ==
  \A i \in Procs :
    /\ sm[i] \in [1..2 * N -> Byte]
    /\ az[i] \in [1..2 * N -> Byte]
    /\ nonce[i] \in [1..2 * N -> Byte]
    /\ hram[i] \in [1..2 * N -> Byte]
    /\ buff[i] \in [1..3 * N -> Byte]
    /\ A[i] >= 0 /\ (A[i] < L \/ A[i] = junk[i])
    /\ R[i] >= 0 /\ (R[i] < L \/ R[i] = junk[i])

----------------------------------------------------------------------------
(* A verifier of the signing equation. *)

\* S*B = R + H(R || A || M)*A for the signature sig = R || S, the encoded
\* public point Aenc and the digest M, with S canonical.
Verify(sig, Aenc, M) ==
  LET Renc == Lo(sig)
      S == LEValue(Hi(sig))
      h == ModL(sha512(Renc \o Aenc \o M))
  IN /\ S < L
     /\ ge_valid(Renc)
     /\ ge_valid(Aenc)
     /\ ge_scalarmult_base(Hi(sig))
          = ge_add(ge_frombytes(Renc), ge_scalarmult(h, ge_frombytes(Aenc)))

\* The public point of password P, encoded.
PublicKey(P) == ge_p3_tobytes(ge_scalarmult_base(clamp(sha512(P))))

----------------------------------------------------------------------------
\* C1: at return the signature R || S satisfies S*B = R + H(R || A || M)*A
\* for the public point A of the password: R is the encoding of nonce*B and
\* S = (challenge * secretScalar + nonce) mod L.
C1_VerifierAccepts ==
  \A i \in Procs :
    Done(i) =>
      /\ Verify(sm[i], PublicKey(pw[i]), m[i])
      /\ Lo(sm[i]) = ge_p3_tobytes(ge_scalarmult_base(nonce[i]))
      /\ LEValue(Hi(sm[i]))
           = (MulModL(ModL(Lo(hram[i])), ModL(Lo(az[i]))) + ModL(Lo(nonce[i]))) % L

C1_Witness ==
  \E i \in Procs : Done(i) /\ pw[i] # <<>> /\ m[i] # ZeroDigest /\ junk[i] # 0

\* C2: two invocations with the same digest and the same password return
\* byte-identical signatures, whatever their output buffers and frames held.
C2_Deterministic ==
  (Done(1) /\ Done(2) /\ m[1] = m[2] /\ pw[1] = pw[2]) => sm[1] = sm[2]

C2_Witness ==
  Done(1) /\ Done(2) /\ m[1] = m[2] /\ pw[1] = pw[2] /\ pw[1] # <<>>
    /\ junk[1] # junk[2]

\* C3 as stated: every scalar operand of ScalarMultiplyBase and of MultiplyAdd
\* (the secret scalar, the nonce, the challenge) is below L where it is used.
C3_AllOperandsCanonical ==
  \A i \in Procs :
    /\ pc[i] \in {"L28", "L38"} => LEValue(Lo(az[i])) < L
    /\ pc[i] \in {"L32", "L38"} => LEValue(Lo(nonce[i])) < L
    /\ pc[i] = "L38" => LEValue(Lo(hram[i])) < L

\* C3 amended: the nonce and the challenge are below L where they are used;
\* the secret scalar is used as clamped, in [2^(8N-2), 2^(8N-1)), which is
\* not below L.
C3_NonceAndChallengeCanonical ==
  \A i \in Procs :
    /\ pc[i] \in {"L32", "L38"} => LEValue(Lo(nonce[i])) < L
    /\ pc[i] = "L38" => LEValue(Lo(hram[i])) < L
    /\ pc[i] \in {"L28", "L38"} =>
         /\ LEValue(Lo(az[i])) >= 2^(8 * N - 2)
         /\ LEValue(Lo(az[i])) < 2^(8 * N - 1)
         /\ LEValue(Lo(az[i])) >= L

C3_Witness ==
  \E i \in Procs : pc[i] = "L38" /\ LEValue(Lo(sha512(Hi(az[i]) \o m[i]))) >= L

\* The two invocations' inputs differ in a single bit, of the digest or of
\* the password.
SingleBitChange ==
  \/ pw[1] = pw[2] /\ OneBitApart(m[1], m[2])
  \/ m[1] = m[2] /\ OneBitApart(pw[1], pw[2])

\* The hash outputs g and h differ, and only in bits that clamping overwrites.
DifferOnlyInClampedBits(g, h) ==
  /\ g # h
  /\ \A k \in 1..2 * N : k \notin {1, N} => g[k] = h[k]
  /\ g[1] \div 8 = h[1] \div 8
  /\ g[N] % 64 = h[N] % 64

\* C4 as stated: a single-bit change of an input changes the secret scalar,
\* the prefix, the public point, the nonce, the commitment, the challenge
\* and the response.
C4_EveryValueChanges ==
  (Done(1) /\ Done(2) /\ SingleBitChange) =>
    /\ Lo(az[1]) # Lo(az[2])
    /\ Hi(az[1]) # Hi(az[2])
    /\ A[1] # A[2]
    /\ Lo(nonce[1]) # Lo(nonce[2])
    /\ R[1] # R[2]
    /\ Lo(hram[1]) # Lo(hram[2])
    /\ Hi(sm[1]) # Hi(sm[2])

\* C4 amended: the secret scalar, the prefix and the public point depend on
\* the password only, so a change of the digest changes none of them; a change
\* of the password changes none of them either when the two password hashes
\* differ only in bits that clamping overwrites; of the values that depend on
\* the digest, the commitment changes whenever the nonce does.
C4_DigestChangeKeepsKey ==
  (Done(1) /\ Done(2)) =>
    /\ pw[1] = pw[2] => (az[1] = az[2] /\ A[1] = A[2])
    /\ DifferOnlyInClampedBits(sha512(pw[1]), sha512(pw[2]))
         => (az[1] = az[2] /\ A[1] = A[2])
    /\ Lo(nonce[1]) # Lo(nonce[2]) => (R[1] # R[2] /\ Lo(sm[1]) # Lo(sm[2]))

C4_Witness ==
  Done(1) /\ Done(2) /\ pw[1] = pw[2] /\ OneBitApart(m[1], m[2])
    /\ Lo(nonce[1]) # Lo(nonce[2])

\* C5 as stated: with the hashes of the compared inputs distinct, a
\* single-bit change of the digest or of the password changes the signature.
C5_SignatureChanges ==
  (Done(1) /\ Done(2) /\ SingleBitChange
     /\ (pw[1] # pw[2] => sha512(pw[1]) # sha512(pw[2])))
    => sm[1] # sm[2]

\* C5 amended: the signature changes whenever the reduced nonce changes; it is
\* unchanged when the digest is the same and the two password hashes differ
\* only in bits that clamping overwrites.
C5_ChangesUnlessClampedAway ==
  (Done(1) /\ Done(2)) =>
    /\ Lo(nonce[1]) # Lo(nonce[2]) => sm[1] # sm[2]
    /\ (m[1] = m[2] /\ DifferOnlyInClampedBits(sha512(pw[1]), sha512(pw[2])))
         => sm[1] = sm[2]

C5_Witness ==
  Done(1) /\ Done(2) /\ m[1] = m[2] /\ OneBitApart(pw[1], pw[2])
    /\ DifferOnlyInClampedBits(sha512(pw[1]), sha512(pw[2]))

\* C6: when the challenge is hashed the buffer is CommitmentPoint ||
\* PublicPoint || MessageDigest: the encoding of nonce*B, which is also the
\* first half of the signature, then the encoding of secretScalar*B, then the
\* caller's digest; and the challenge is that hash reduced mod L.
C6_ChallengeInput ==
  \A i \in Procs :
    LET transcript == ge_p3_tobytes(ge_scalarmult_base(nonce[i]))
                        \o ge_p3_tobytes(ge_scalarmult_base(az[i]))
                        \o m[i]
    IN /\ pc[i] = "L36" => (buff[i] = transcript /\ Lo(sm[i]) = Lo(buff[i]))
       /\ pc[i] = "L37" => hram[i] = sha512(transcript)
       /\ Reached(i, "L38") => LEValue(Lo(hram[i])) = ModL(sha512(transcript))

C6_Witness ==
  \E i \in Procs :
    /\ pc[i] = "L38" /\ pw[i] # <<>> /\ m[i] # ZeroDigest /\ junk[i] # 0
    /\ SubSeq(buff[i], N + 1, 2 * N) # Hi(az[i])

\* C7: the nonce is ReduceScalar(Hash(prefixHalf || M)), over the prefix
\* az[32..63] followed by the digest; two invocations with the same prefix
\* and the same digest have the same nonce.
C7_NonceFromPrefixAndDigest ==
  /\ \A i \in Procs :
       /\ pc[i] \in {"L28", "L29", "L31"} => nonce[i] = sha512(Hi(az[i]) \o m[i])
       /\ Reached(i, "L32") =>
            LEValue(Lo(nonce[i])) = ModL(sha512(Hi(az[i]) \o m[i]))
  /\ (Reached(1, "L32") /\ Reached(2, "L32")
        /\ Hi(sha512(pw[1])) = Hi(sha512(pw[2])) /\ m[1] = m[2])
       => Lo(nonce[1]) = Lo(nonce[2])

C7_Witness ==
  /\ Reached(1, "L32") /\ Reached(2, "L32")
  /\ m[1] = m[2] /\ m[1] # ZeroDigest
  /\ Hi(sha512(pw[1])) = Hi(sha512(pw[2]))
  /\ Lo(az[1]) # Lo(az[2])

\* C8: from key derivation on, for every password, byte 0 of the secret
\* scalar has its low 3 bits clear, byte 31 has bit 7 clear and bit 6 set, and
\* every other bit of az is as the hash of the password produced it.
C8_Clamped ==
  \A i \in Procs :
    Reached(i, "L24") =>
      LET h == sha512(pw[i])
      IN /\ az[i][1] % 8 = 0
         /\ az[i][N] \div 64 = 1
         /\ az[i][1] \div 8 = h[1] \div 8
         /\ az[i][N] % 64 = h[N] % 64
         /\ \A k \in 1..2 * N : k \notin {1, N} => az[i][k] = h[k]

C8_Witness ==
  \E i \in Procs :
    /\ pw[i] = <<>> /\ Done(i)
    /\ sha512(pw[i])[1] % 8 # 0
    /\ sha512(pw[i])[N] \div 64 # 1

\* C9: the response scalar in the last 32 bytes of the signature is below L,
\* although the secret scalar given to MultiplyAdd is not.
C9_ResponseCanonical ==
  \A i \in Procs : Done(i) => LEValue(Hi(sm[i])) < L

C9_Witness ==
  \E i \in Procs : Done(i) /\ LEValue(Lo(az[i])) >= L /\ junk[i] # 0

\* C10: under every interleaving of two invocations each returns the
\* signature it returns when run alone, and no step modifies a digest or a
\* password.
C10_Reentrant ==
  /\ [](\A i \in Procs : Done(i) => sm[i] = sign(m[i], pw[i], junk[i]))
  /\ [][m' = m /\ pw' = pw]_vars

C10_Witness ==
  Done(1) /\ Done(2) /\ m[1] # m[2] /\ pw[1] # pw[2] /\ pw[1] # <<>> /\ pw[2] # <<>>
====
